---- MODULE Spec2Model ----
(***************************************************************************)
(* Model of the citation normalisation pipeline of server.js:              *)
(*   fixInTextCitations, fixReferenceList, formatSingleReference and the   *)
(*   URL replacement stage of processTextForCitations, together with the   *)
(*   /api/format handler that calls the pipeline.                          *)
(*                                                                         *)
(* A text is a sequence of one-character strings.  The regular             *)
(* expressions of the source are written as sequences of items and run by  *)
(* a backtracking matcher that follows the ECMAScript matching order       *)
(* (greedy and lazy quantifiers, ordered alternatives, captures).          *)
(***************************************************************************)
EXTENDS Integers, Sequences, FiniteSets, TLC

VARIABLES
  pc,               \* position of the run under study
  parts,            \* how the input text was written down (pieces of the input)
  arg,              \* the text handed to the function under study
  ret,              \* the text it returned
  ret2,             \* the text returned when the function is applied to ret
  rule,             \* formatSingleReference: the branch that returned (its log line)
  urls,             \* URL stage: the matches of urlRegex in the text, in order
  done,             \* URL stage: number of matches the callback has handled
  citationCounter,  \* URL stage: the local fallback counter (server.js:110)
  labels,           \* URL stage: the replacement produced for each handled match
  req               \* /api/format: one record per request in flight

vars == <<pc, parts, arg, ret, ret2, rule, urls, done, citationCounter, labels, req>>

----------------------------------------------------------------------------
(* Texts *)

Str(s) == [i \in 1..Len(s) |-> SubSeq(s, i, i)]

Digit == {"0", "1", "2", "3", "4", "5", "6", "7", "8", "9"}

LowerAZ == {"a", "b", "c", "d", "e", "f", "g", "h", "i", "j", "k", "l", "m",
            "n", "o", "p", "q", "r", "s", "t", "u", "v", "w", "x", "y", "z"}

UpperAZ == {"A", "B", "C", "D", "E", "F", "G", "H", "I", "J", "K", "L", "M",
            "N", "O", "P", "Q", "R", "S", "T", "U", "V", "W", "X", "Y", "Z"}

\* The characters \s matches and trim() strips, among those the texts use.
WhiteSpace == {" ", "\t", "\n", "\r"}

\* Stands for the en dash U+2013, which a TLA+ string cannot hold.
EnDash == "~"

LowerSeq == Str("abcdefghijklmnopqrstuvwxyz")

UpperSeq == Str("ABCDEFGHIJKLMNOPQRSTUVWXYZ")

AlphaIndex(c) == CHOOSE i \in 1..26 : LowerSeq[i] = c \/ UpperSeq[i] = c

\* Both cases of a letter, the character itself otherwise (the i flag).
BothCases(c) ==
  IF c \in LowerAZ \cup UpperAZ
    THEN {LowerSeq[AlphaIndex(c)], UpperSeq[AlphaIndex(c)]}
    ELSE {c}

ToLowerChar(c) == IF c \in UpperAZ THEN LowerSeq[AlphaIndex(c)] ELSE c

Min(S) == CHOOSE x \in S : \A y \in S : x <= y

Max(S) == CHOOSE x \in S : \A y \in S : x >= y

RECURSIVE Flatten(_)
Flatten(ss) == IF Len(ss) = 0 THEN <<>> ELSE Head(ss) \o Flatten(Tail(ss))

RECURSIVE Join(_, _)
\* Array.prototype.join
Join(ss, sep) ==
  IF Len(ss) = 0 THEN <<>>
  ELSE IF Len(ss) = 1 THEN Head(ss)
  ELSE Head(ss) \o sep \o Join(Tail(ss), sep)

\* String.prototype.trim
Trim(s) ==
  LET keep == {i \in 1..Len(s) : s[i] \notin WhiteSpace}
  IN  IF keep = {} THEN <<>> ELSE SubSeq(s, Min(keep), Max(keep))

\* String.prototype.includes, for a one-character needle
Includes(s, c) == \E i \in 1..Len(s) : s[i] = c

\* String.prototype.endsWith, for a one-character needle
EndsWith(s, c) == Len(s) > 0 /\ s[Len(s)] = c

StartsWithAt(s, i, needle) ==
  /\ i + Len(needle) - 1 <= Len(s)
  /\ \A j \in 1..Len(needle) : s[i + j - 1] = needle[j]

\* String.prototype.indexOf: 0 when the needle does not occur
IndexOf(s, needle) ==
  LET at == {i \in 1..(Len(s) + 1) : StartsWithAt(s, i, needle)}
  IN  IF at = {} THEN 0 ELSE Min(at)

\* String.prototype.replace(needle, by) with a string needle: the first
\* occurrence only.  (The texts hold no "$", so by has no special patterns.)
ReplaceFirst(s, needle, by) ==
  LET i == IndexOf(s, needle)
  IN  IF i = 0 THEN s
      ELSE SubSeq(s, 1, i - 1) \o by \o SubSeq(s, i + Len(needle), Len(s))

\* String.prototype.split, for a one-character separator
Split(s, c) ==
  LET seps == {j \in 1..Len(s) : s[j] = c}
      n == Cardinality(seps)
      SepAt(k) == CHOOSE j \in seps : Cardinality({x \in seps : x <= j}) = k
  IN  [k \in 1..(n + 1) |->
         SubSeq(s, IF k = 1 THEN 1 ELSE SepAt(k - 1) + 1,
                   IF k = n + 1 THEN Len(s) ELSE SepAt(k) - 1)]

----------------------------------------------------------------------------
(* Regular expressions.                                                    *)
(* A pattern is a sequence of items plus the places of its capture groups. *)
(* A way of matching is a path: one step per item, each with the position  *)
(* it ends at and the choice it made.  Backtracking tries the choices of   *)
(* each item in a fixed order (a greedy quantifier the longest run first,  *)
(* a lazy one the shortest first, a disjunction left to right) and returns *)
(* the first complete path it finds.  Whether a choice can be completed    *)
(* depends only on the position it ends at, so that path takes, item by    *)
(* item, the first choice that ends where the rest can still match.        *)

Item(op, set, neg, min, max, greedy, chars, alts) ==
  [op |-> op, set |-> set, neg |-> neg, min |-> min, max |-> max,
   greedy |-> greedy, chars |-> chars, alts |-> alts]

\* max = -1: no upper limit
One(set)         == Item("cls", set, FALSE, 1, 1, TRUE, <<>>, <<>>)
Opt(set)         == Item("cls", set, FALSE, 0, 1, TRUE, <<>>, <<>>)
Star(set)        == Item("cls", set, FALSE, 0, -1, TRUE, <<>>, <<>>)
Plus(set)        == Item("cls", set, FALSE, 1, -1, TRUE, <<>>, <<>>)
Rep(set, n)      == Item("cls", set, FALSE, n, n, TRUE, <<>>, <<>>)
NotStar(set)     == Item("cls", set, TRUE, 0, -1, TRUE, <<>>, <<>>)
NotPlus(set)     == Item("cls", set, TRUE, 1, -1, TRUE, <<>>, <<>>)
NotLazyStar(set) == Item("cls", set, TRUE, 0, -1, FALSE, <<>>, <<>>)
Alt(alts)        == Item("alt", {}, FALSE, 0, 0, TRUE, <<>>, alts)
LookAhead(alts)  == Item("look", {}, FALSE, 0, 0, TRUE, <<>>, alts)
Bos              == Item("bos", {}, FALSE, 0, 0, TRUE, <<>>, <<>>)
Eos              == Item("eos", {}, FALSE, 0, 0, TRUE, <<>>, <<>>)

\* A literal
Lit(s) ==
  Item("lit", {}, FALSE, 0, 0, TRUE, [i \in 1..Len(s) |-> {SubSeq(s, i, i)}], <<>>)

\* A literal under the i flag
LitI(s) ==
  Item("lit", {}, FALSE, 0, 0, TRUE,
       [i \in 1..Len(s) |-> BothCases(SubSeq(s, i, i))], <<>>)

Step(e, k, sub) == [e |-> e, k |-> k, sub |-> sub]

NoMatch == [ok |-> FALSE, start |-> 0, end |-> 0, path |-> <<>>]

InClass(it, c) == IF it.neg THEN c \notin it.set ELSE c \in it.set

\* How many characters from position q on a quantified class can take at most
Run(t, q, it) ==
  LET left == Len(t) - q + 1
      lim == IF it.max >= 0 /\ it.max < left THEN it.max ELSE left
      bad == {j \in q..(q + lim - 1) : ~InClass(it, t[j])}
  IN  IF bad = {} THEN lim ELSE Min(bad) - q

EndOf(path, p) == IF Len(path) = 0 THEN p ELSE path[Len(path)].e

RECURSIVE Ends(_, _, _), Forward(_, _, _), Backward(_, _, _, _),
          BestStep(_, _, _, _), Pick(_, _, _, _, _), FirstPath(_, _, _, _)

\* (Where a value is used more than once it is handed to an operator as an
\* argument, so that it is written, and worked out, once.)

\* The positions reached item by item: acc[k] holds the positions where the
\* k-th item can start once the items before it have matched from the
\* positions of acc[1]; one more set is added for each further item.
Forward(items, t, acc) ==
  IF Len(acc) > Len(items) THEN acc
  ELSE Forward(items, t,
         Append(acc, UNION {Ends(items[Len(acc)], t, q) : q \in acc[Len(acc)]}))

\* The positions where the whole of items can end when started at p
PatEnds(items, t, p) == Forward(items, t, <<{p}>>)[Len(items) + 1]

\* The positions where item it can end when started at q
Ends(it, t, q) ==
  CASE it.op = "cls" -> {q + c : c \in it.min..Run(t, q, it)}
    [] it.op = "lit" ->
         IF /\ q + Len(it.chars) - 1 <= Len(t)
            /\ \A j \in 1..Len(it.chars) : t[q + j - 1] \in it.chars[j]
           THEN {q + Len(it.chars)}
           ELSE {}
    [] it.op = "alt" ->
         UNION {PatEnds(it.alts[a], t, q) : a \in 1..Len(it.alts)}
    [] it.op = "look" ->
         IF \E a \in 1..Len(it.alts) : PatEnds(it.alts[a], t, q) # {}
           THEN {q} ELSE {}
    [] it.op = "bos" -> IF q = 1 THEN {q} ELSE {}
    [] it.op = "eos" -> IF q = Len(t) + 1 THEN {q} ELSE {}

\* The sets of fwd cut down, from the last to the first, to the positions
\* from which the rest of the items can still match: acc holds the sets of the
\* last Len(acc) places, the last of them the allowed ends.
Backward(items, t, fwd, acc) ==
  IF Len(acc) > Len(items) THEN acc
  ELSE LET k == Len(items) + 1 - Len(acc)
       IN  Backward(items, t, fwd,
             <<{q \in fwd[k] : Ends(items[k], t, q) \cap acc[1] # {}}>> \o acc)

\* The step of a class that takes one of the counts cs
ClassStep(it, q, cs) ==
  IF it.greedy THEN Step(q + Max(cs), 0 - Max(cs), <<>>)
  ELSE Step(q + Min(cs), Min(cs), <<>>)

\* The step of a disjunction that takes alternative a along the path sub
AltStep(q, a, sub) == Step(EndOf(sub, q), a, sub)

\* The first choice of item it at q that ends at an allowed position
BestStep(it, t, q, allowed) ==
  CASE it.op = "cls" ->
         ClassStep(it, q, {c \in it.min..Run(t, q, it) : q + c \in allowed})
    [] it.op = "lit" -> Step(q + Len(it.chars), 0, <<>>)
    [] it.op = "alt" ->
         \* a one-element set: the first alternative that can end as allowed
         CHOOSE s \in {AltStep(q, a, FirstPath(it.alts[a], t, q, allowed)) :
                         a \in {Min({b \in 1..Len(it.alts) :
                                       PatEnds(it.alts[b], t, q) \cap allowed # {}})}} :
           TRUE
    [] OTHER -> Step(q, 0, <<>>)

\* The path so far with the first choice of each further item added
Pick(items, t, p, bwd, path) ==
  IF Len(path) >= Len(items) THEN path
  ELSE Pick(items, t, p, bwd,
         Append(path, BestStep(items[Len(path) + 1], t, EndOf(path, p),
                               bwd[Len(path) + 2])))

\* fwd cut down to the positions from which a match can end in target
Narrow(items, t, fwd, target) ==
  Backward(items, t, fwd, <<fwd[Len(items) + 1] \cap target>>)

\* The first path of items from p that ends in target (there is one)
FirstPath(items, t, p, target) ==
  Pick(items, t, p, Narrow(items, t, Forward(items, t, <<{p}>>), target), <<>>)

MatchOf(j, path) ==
  [ok |-> TRUE, start |-> j, end |-> EndOf(path, j), path |-> path]

\* The match at the first of the positions starts, if there is one
FirstOf(pat, t, starts) ==
  IF starts = {} THEN NoMatch
  ELSE MatchOf(Min(starts),
               FirstPath(pat.items, t, Min(starts), 1..(Len(t) + 1)))

\* RegExp exec from position i: the leftmost position where the pattern
\* matches, and there the first path
Search(pat, t, i) ==
  FirstOf(pat, t, {j \in i..(Len(t) + 1) :
                     /\ Ends(pat.items[1], t, j) # {}
                     /\ PatEnds(pat.items, t, j) # {}})

ItemStart(path, p, i) == IF i = 1 THEN p ELSE path[i - 1].e

\* A capture group is placed by <<i, j>>: items i to j of the pattern, or by
\* <<i, a, j1, j2>>: items j1 to j2 of alternative a of item i.
Defined(pat, m, g) ==
  LET at == pat.groups[g]
  IN  Len(at) = 2 \/ m.path[at[1]].k = at[2]

\* The text of capture group g of match m; <<>> for a group that took no part
Group(pat, t, m, g) ==
  LET at == pat.groups[g]
  IN  IF Len(at) = 2
        THEN SubSeq(t, ItemStart(m.path, m.start, at[1]), m.path[at[2]].e - 1)
      ELSE IF m.path[at[1]].k # at[2] THEN <<>>
      ELSE SubSeq(t, ItemStart(m.path[at[1]].sub,
                               ItemStart(m.path, m.start, at[1]), at[3]),
                     m.path[at[1]].sub[at[4]].e - 1)

Matched(t, m) == SubSeq(t, m.start, m.end - 1)

RECURSIVE MatchesFrom(_, _, _)
\* The match m and the matches after it
MatchesWith(pat, t, m) ==
  IF ~m.ok THEN <<>> ELSE <<m>> \o MatchesFrom(pat, t, m.end)

\* The matches of a g-flagged pattern in t from position i on, left to right
\* (no pattern of the source matches the empty text)
MatchesFrom(pat, t, i) == MatchesWith(pat, t, Search(pat, t, i))

\* text.replace(pattern, ...) for a g-flagged pattern: t with its k-th match
\* replaced by reps[k]
Rebuild(t, ms, reps) ==
  LET n == Len(ms)
      From(k) == IF k = 1 THEN 1 ELSE ms[k - 1].end
  IN  Flatten([k \in 1..n |-> SubSeq(t, From(k), ms[k].start - 1) \o reps[k]])
        \o SubSeq(t, From(n + 1), Len(t))

----------------------------------------------------------------------------
(* fixInTextCitations, server.js:131-159 *)

\* /\(([^)]*?)(\s+)(\d{4}[a-z]?)\)/g
citationPattern ==
  [items |-> <<Lit("("), NotLazyStar({")"}), Plus(WhiteSpace),
               Rep(Digit, 4), Opt(LowerAZ), Lit(")")>>,
   groups |-> << <<2, 2>>, <<3, 3>>, <<4, 5>> >>]

\* /\s*&\s*/g
ampersandPattern ==
  [items |-> <<Star(WhiteSpace), Lit("&"), Star(WhiteSpace)>>,
   groups |-> <<>>]

\* s.replace(pat, by) for a g-flagged pattern and a replacement text without
\* special patterns
ReplaceAll(pat, s, by) == Rebuild(s, MatchesFrom(pat, s, 1), [m \in Nat |-> by])

\* s.replace(/\s*&\s*/g, ' and ')
ReplaceAmpersands(s) == ReplaceAll(ampersandPattern, s, Str(" and "))

\* A guard that looks only for a comma somewhere in the authors.
CommaGuardAnywhere(authors) == Includes(authors, ",")

\* No guard at all: every match is rewritten.
CommaGuardOff(authors) == FALSE

\* The test of server.js:141
CommaGuard(authors) == Includes(authors, ",") /\ EndsWith(Trim(authors), ",")

\* The replacement callback of server.js:139-155
CitationCallback(t, m) ==
  LET authors == Group(citationPattern, t, m, 1)
      year == Group(citationPattern, t, m, 3)
  IN  IF CommaGuard(authors) THEN Matched(t, m)
      ELSE Str("(") \o ReplaceAmpersands(authors) \o Str(", ") \o year \o Str(")")

\* The callback called on each of the matches ms
CitationsFixed(text, ms) ==
  Rebuild(text, ms, [k \in 1..Len(ms) |-> CitationCallback(text, ms[k])])

\* text.replace(citationPattern, callback)
fixInTextCitations(text) ==
  CitationsFixed(text, MatchesFrom(citationPattern, text, 1))

----------------------------------------------------------------------------
(* formatSingleReference, server.js:194-263 *)

\* /^([^.]+)\.\s*\((\d{4}[a-z]?)\)\.\s*([^.]+)\.\s*([^,]+),\s*(\d+)(?:\((\d+)\))?,\s*(\d+[-\u2013]\d+)\.?$/
\* (the texts of the model write the en dash U+2013 as EnDash)
journalPattern ==
  [items |-> <<Bos, NotPlus({"."}), Lit("."), Star(WhiteSpace), Lit("("),
               Rep(Digit, 4), Opt(LowerAZ), Lit(")."), Star(WhiteSpace),
               NotPlus({"."}), Lit("."), Star(WhiteSpace), NotPlus({","}),
               Lit(","), Star(WhiteSpace), Plus(Digit),
               Alt(<< <<Lit("("), Plus(Digit), Lit(")")>>, <<>> >>),
               Lit(","), Star(WhiteSpace),
               Plus(Digit), One({"-", EnDash}), Plus(Digit),
               Opt({"."}), Eos>>,
   groups |-> << <<2, 2>>, <<6, 7>>, <<10, 10>>, <<13, 13>>, <<16, 16>>,
                 <<17, 1, 2, 2>>, <<20, 22>> >>]

\* /^([^.]+)\.\s*\((\d{4}[a-z]?)\)\.\s*([^.]+)\.\s*(In\s+|Proceedings\s+of\s+|)([^,]+),?\s*([^.]*)\./
conferencePattern ==
  [items |-> <<Bos, NotPlus({"."}), Lit("."), Star(WhiteSpace), Lit("("),
               Rep(Digit, 4), Opt(LowerAZ), Lit(")."), Star(WhiteSpace),
               NotPlus({"."}), Lit("."), Star(WhiteSpace),
               Alt(<< <<Lit("In"), Plus(WhiteSpace)>>,
                      <<Lit("Proceedings"), Plus(WhiteSpace), Lit("of"),
                        Plus(WhiteSpace)>>,
                      <<>> >>),
               NotPlus({","}), Opt({","}), Star(WhiteSpace), NotStar({"."}),
               Lit(".")>>,
   groups |-> << <<2, 2>>, <<6, 7>>, <<10, 10>>, <<13, 13>>, <<14, 14>>,
                 <<17, 17>> >>]

\* /^([^.]+)\.\s*\((\d{4}[a-z]?)\)\.\s*([^.]+)\.\s*([^.]+)\.?$/
bookPattern ==
  [items |-> <<Bos, NotPlus({"."}), Lit("."), Star(WhiteSpace), Lit("("),
               Rep(Digit, 4), Opt(LowerAZ), Lit(")."), Star(WhiteSpace),
               NotPlus({"."}), Lit("."), Star(WhiteSpace), NotPlus({"."}),
               Opt({"."}), Eos>>,
   groups |-> << <<2, 2>>, <<6, 7>>, <<10, 10>>, <<13, 13>> >>]

\* /\.\s*\.\s*/g
doublePeriodPattern ==
  [items |-> <<Lit("."), Star(WhiteSpace), Lit("."), Star(WhiteSpace)>>,
   groups |-> <<>>]

\* /\s+/g
spacesPattern == [items |-> <<Plus(WhiteSpace)>>, groups |-> <<>>]

\* ref.match(pattern)
JournalMatch(ref) == Search(journalPattern, ref, 1)

ConferenceMatch(ref) == Search(conferencePattern, ref, 1)

BookMatch(ref) == Search(bookPattern, ref, 1)

\* authors.replace(/\s*&\s*/g, ' and ').trim()
FixAuthors(authors) == Trim(ReplaceAmpersands(authors))

\* A journal format that writes the issue brackets whether or not the entry
\* has an issue.
FormatJournalAlwaysIssue(ref, m) ==
  LET G(g) == Group(journalPattern, ref, m, g)
  IN  FixAuthors(G(1)) \o Str(" (") \o G(2) \o Str(") '") \o Trim(G(3))
        \o Str("', *") \o Trim(G(4)) \o Str("*, ") \o G(5)
        \o Str("(") \o G(6) \o Str(")")
        \o Str(", pp. ") \o G(7) \o Str(".")

\* server.js:203-209
FormatJournal(ref, m) ==
  LET G(g) == Group(journalPattern, ref, m, g)
  IN  FixAuthors(G(1)) \o Str(" (") \o G(2) \o Str(") '") \o Trim(G(3))
        \o Str("', *") \o Trim(G(4)) \o Str("*, ") \o G(5)
        \o (IF Defined(journalPattern, m, 6) /\ Len(G(6)) > 0
              THEN Str("(") \o G(6) \o Str(")") ELSE <<>>)
        \o Str(", pp. ") \o G(7) \o Str(".")

\* server.js:221-227
FormatConference(ref, m) ==
  LET G(g) == Group(conferencePattern, ref, m, g)
  IN  FixAuthors(G(1)) \o Str(" (") \o G(2) \o Str(") '") \o Trim(G(3))
        \o Str("', in *") \o Trim(G(5)) \o Str("*")
        \o (IF Len(G(6)) > 0 THEN Str(", ") \o Trim(G(6)) ELSE <<>>)
        \o Str(".")

\* server.js:239-245
FormatBook(ref, m) ==
  LET G(g) == Group(bookPattern, ref, m, g)
  IN  FixAuthors(G(1)) \o Str(" (") \o G(2) \o Str(") *") \o Trim(G(3))
        \o Str("*. ") \o Trim(G(4)) \o Str(".")

\* server.js:255-259
BasicFixes(ref) ==
  ReplaceAll(spacesPattern,
    ReplaceAll(doublePeriodPattern, ReplaceAmpersands(ref), Str(". ")),
    Str(" "))

\* The chain with the book pattern tried before the conference pattern.
FirstRuleBookFirst(ref, journalMatch, conferenceMatch, bookMatch) ==
  IF journalMatch.ok
    THEN [rule |-> "journal", out |-> FormatJournal(ref, journalMatch)]
  ELSE IF bookMatch.ok
    THEN [rule |-> "book", out |-> FormatBook(ref, bookMatch)]
  ELSE IF conferenceMatch.ok
    THEN [rule |-> "conference", out |-> FormatConference(ref, conferenceMatch)]
  ELSE [rule |-> "fallback", out |-> BasicFixes(ref)]

\* The chain of guarded returns of server.js:201-262; rule names the branch
\* that returns (each logs its own line), out is the returned text.
FirstRule(ref, journalMatch, conferenceMatch, bookMatch) ==
  IF journalMatch.ok
    THEN [rule |-> "journal", out |-> FormatJournal(ref, journalMatch)]
  ELSE IF conferenceMatch.ok
    THEN [rule |-> "conference", out |-> FormatConference(ref, conferenceMatch)]
  ELSE IF bookMatch.ok
    THEN [rule |-> "book", out |-> FormatBook(ref, bookMatch)]
  ELSE [rule |-> "fallback", out |-> BasicFixes(ref)]

FormatReference(ref) ==
  FirstRule(ref, JournalMatch(ref), ConferenceMatch(ref), BookMatch(ref))

formatSingleReference(ref) == FormatReference(ref).out

----------------------------------------------------------------------------
(* fixReferenceList, server.js:162-191 *)

\* /(References?|Bibliography)\s*\n([\s\S]*?)(?=\n\n[A-Z]|\n\n\d+\.|\n\nAppendix|$)/i
referencesPattern ==
  [items |-> <<Alt(<< <<LitI("Reference"), Opt(BothCases("s"))>>,
                      <<LitI("Bibliography")>> >>),
               Star(WhiteSpace), Lit("\n"), NotLazyStar({}),
               LookAhead(<< <<Lit("\n\n"), One(UpperAZ \cup LowerAZ)>>,
                            <<Lit("\n\n"), Plus(Digit), Lit(".")>>,
                            <<Lit("\n\n"), LitI("Appendix")>>,
                            <<Eos>> >>)>>,
   groups |-> << <<1, 1>>, <<4, 4>> >>]

RECURSIVE FormatEach(_)
\* references.filter(ref => ref.trim().length > 0)
\*           .map(ref => formatSingleReference(ref.trim()))
FormatEach(refs) ==
  IF Len(refs) = 0 THEN <<>>
  ELSE IF Len(Trim(Head(refs))) = 0 THEN FormatEach(Tail(refs))
  ELSE <<formatSingleReference(Trim(Head(refs)))>> \o FormatEach(Tail(refs))

\* server.js:168-190, for the result referencesMatch of text.match
ReplaceSection(text, referencesMatch) ==
  IF ~referencesMatch.ok THEN text
  ELSE ReplaceFirst(text, Matched(text, referencesMatch),
         \* formattedSection
         Group(referencesPattern, text, referencesMatch, 1) \o Str("\n")
           \o Join(FormatEach(Split(Group(referencesPattern, text, referencesMatch, 2),
                                    "\n")),
                   Str("\n")))

fixReferenceList(text) == ReplaceSection(text, Search(referencesPattern, text, 1))

----------------------------------------------------------------------------
(* The URL stage of processTextForCitations, server.js:108-124 *)

\* /(https?:\/\/[^\s]+)/g
urlPattern ==
  [items |-> <<Lit("http"), Opt({"s"}), Lit("://"), NotPlus(WhiteSpace)>>,
   groups |-> <<>>]

DigitChar(d) == SubSeq("0123456789", d + 1, d + 1)

DigitValue(c) == CHOOSE d \in 0..9 : DigitChar(d) = c

RECURSIVE ToDecimal(_)
\* `${n}` for a number n >= 0
ToDecimal(n) ==
  IF n < 10 THEN <<DigitChar(n)>>
  ELSE Append(ToDecimal(n \div 10), DigitChar(n % 10))

RECURSIVE PortValue(_)
PortValue(p) ==
  IF Len(p) = 0 THEN 0
  ELSE 10 * PortValue(SubSeq(p, 1, Len(p) - 1)) + DigitValue(p[Len(p)])

Slashes == {"/", "\\"}

\* What ends the authority of a URL with a special scheme
AuthorityEnd == {"/", "\\", "?", "#"}

\* Characters no host may hold (of those that can be left in it)
ForbiddenHost == {" ", "<", ">", "[", "^", "|"}

\* The authority of a matched token, which starts with http:// or https://:
\* the slashes after the scheme are skipped, and the authority runs from
\* position a to the first / \ ? or #
AuthorityFrom(url, a) ==
  SubSeq(url, a, Min({j \in a..(Len(url) + 1) :
                        j > Len(url) \/ url[j] \in AuthorityEnd}) - 1)

\* Where the scheme ends: the first colon
SchemeEnd(url) == Min({j \in 1..Len(url) : url[j] = ":"})

Authority(url) ==
  AuthorityFrom(url, Min({j \in (SchemeEnd(url) + 1)..(Len(url) + 1) :
                            j > Len(url) \/ url[j] \notin Slashes}))

\* What follows the last @ of the authority
HostPort(authority) ==
  SubSeq(authority,
         Max({0} \cup {j \in 1..Len(authority) : authority[j] = "@"}) + 1,
         Len(authority))

\* What stands before the first colon
HostOf(hostport) ==
  SubSeq(hostport, 1,
         Min({j \in 1..(Len(hostport) + 1) :
                j > Len(hostport) \/ hostport[j] = ":"}) - 1)

\* What follows the first colon
PortOf(hostport) == SubSeq(hostport, Len(HostOf(hostport)) + 2, Len(hostport))

ParsedHost(host, port) ==
  IF /\ Len(host) > 0
     /\ \A j \in 1..Len(host) : host[j] \notin ForbiddenHost
     /\ \A j \in 1..Len(port) : port[j] \in Digit
     /\ Len(port) <= 5
     /\ PortValue(port) <= 65535
    THEN [ok |-> TRUE, hostname |-> [j \in 1..Len(host) |-> ToLowerChar(host[j])]]
    ELSE [ok |-> FALSE, hostname |-> <<>>]

\* new URL(url).hostname for a matched token: the host is what follows the
\* last @ of the authority up to the first colon, the port what follows that
\* colon.  Parsing fails on an empty host, a forbidden character in the host,
\* or a port that is no number up to 65535.  Bracketed IPv6 hosts, hosts
\* ending in a number, percent escapes and non-ASCII names are not among the
\* texts given to the model.
UrlHost(url) ==
  ParsedHost(HostOf(HostPort(Authority(url))), PortOf(HostPort(Authority(url))))

\* The counter binding of the invocation that ran before is still in use.
CounterLeftBehind == citationCounter

\* let citationCounter = 1, server.js:110
InitialCounter == 1

\* A callback that counts every URL, parsed or not.
UrlCallbackCountsAll(url, counter) ==
  IF UrlHost(url).ok
    THEN [out |-> Str("(") \o ReplaceFirst(UrlHost(url).hostname, Str("www."), <<>>)
                    \o Str(", 2024)"),
          counter |-> counter + 1]
    ELSE [out |-> Str("(Source ") \o ToDecimal(counter) \o Str(", 2024)"),
          counter |-> counter + 1]

\* The callback of server.js:115-124, called with the counter as it stands:
\* the replacement, and the counter as the call leaves it
UrlCallback(url, counter) ==
  IF UrlHost(url).ok
    THEN [out |-> Str("(") \o ReplaceFirst(UrlHost(url).hostname, Str("www."), <<>>)
                    \o Str(", 2024)"),
          counter |-> counter]
    ELSE [out |-> Str("(Source ") \o ToDecimal(counter) \o Str(", 2024)"),
          counter |-> counter + 1]

UrlMatches(text) == MatchesFrom(urlPattern, text, 1)

MatchedTexts(text, ms) == [k \in 1..Len(ms) |-> Matched(text, ms[k])]

\* text.match(urlRegex) || []
UrlsOf(text) == MatchedTexts(text, UrlMatches(text))

RECURSIVE RunCallbacks(_, _, _)
\* The result c of one call taken up, and the callback called on the rest
AfterCallback(us, outs, c) == RunCallbacks(Tail(us), c.counter, Append(outs, c.out))

\* The callback called on each URL in turn
RunCallbacks(us, counter, outs) ==
  IF Len(us) = 0 THEN [outs |-> outs, counter |-> counter]
  ELSE AfterCallback(us, outs, UrlCallback(Head(us), counter))

\* The text with the replacements r.outs in place of its URLs
Replaced(text, r) ==
  [out |-> Rebuild(text, UrlMatches(text), r.outs),
   outs |-> r.outs, counter |-> r.counter]

\* server.js:109-127 on the text the first two stages have fixed
ReplaceUrls(fixed) ==
  Replaced(fixed, RunCallbacks(UrlsOf(fixed), InitialCounter, <<>>))

\* processTextForCitations, server.js:97-128: the processed text, the
\* replacements made for the URLs and the counter at the return
ProcessText(text) == ReplaceUrls(fixReferenceList(fixInTextCitations(text)))

processTextForCitations(text) == ProcessText(text).out

----------------------------------------------------------------------------
(* Inputs *)

\* The texts of at most n characters over the characters of S
SeqsUpTo(S, n) == UNION {[1..m -> S] : m \in 0..n}

\* Longest author segment of a generated citation
MaxAuthorLen == 3

AuthorChars == {"S", "&", ",", " ", "("}

\* A parenthetical written as ( authors space year close ) and what follows
CiteParts ==
  [kind : {"cite"},
   authors : SeqsUpTo(AuthorChars, MaxAuthorLen),
   space : {<<>>, Str(" "), Str("\n\t")},
   year : {Str("2020"), Str("1999b"), Str("20201"), Str("202")},
   close : {Str(")"), <<>>},
   suffix : {<<>>, Str(" (S  &S, 2020)")}]

CiteText(ps) ==
  Str("(") \o ps.authors \o ps.space \o ps.year \o ps.close \o ps.suffix

CiteExamples ==
  {Str("See (Smith & Jones 2020) for details."), Str("(Smith, 2024)"),
   Str("no citation here"), <<>>}

Idle ==
  /\ urls = <<>>
  /\ done = 0
  /\ citationCounter = 0
  /\ labels = <<>>
  /\ req = <<>>

----------------------------------------------------------------------------
(* fixInTextCitations on its own: called on a text, then on its result *)

InitCite ==
  /\ pc = "call"
  /\ \/ parts \in CiteParts /\ arg = CiteText(parts)
     \/ parts \in [kind : {"text"}, text : CiteExamples] /\ arg = parts.text
  /\ ret = <<>>
  /\ ret2 = <<>>
  /\ rule = "none"
  /\ Idle

FixCitations ==
  /\ pc = "call"
  /\ ret' = fixInTextCitations(arg)
  /\ pc' = "fixed"
  /\ UNCHANGED <<parts, arg, ret2, rule, urls, done, citationCounter, labels, req>>

FixCitationsAgain ==
  /\ pc = "fixed"
  /\ ret2' = fixInTextCitations(ret)
  /\ pc' = "twice"
  /\ UNCHANGED <<parts, arg, ret, rule, urls, done, citationCounter, labels, req>>

NextCite == FixCitations \/ FixCitationsAgain

SpecCite == InitCite /\ [][NextCite]_vars

----------------------------------------------------------------------------
(* Claims about fixInTextCitations *)

\* Every & replaced by the three letters a n d
LiteralAnd(s) == Join(Split(s, "&"), Str("and"))

\* Every & together with the white space around it replaced by " and "
AndWord(s) ==
  LET ps == Split(s, "&")
      n == Len(ps)
      DropLeft(x) ==
        LET keep == {i \in 1..Len(x) : x[i] \notin WhiteSpace}
        IN  IF keep = {} THEN <<>> ELSE SubSeq(x, Min(keep), Len(x))
      DropRight(x) ==
        LET keep == {i \in 1..Len(x) : x[i] \notin WhiteSpace}
        IN  IF keep = {} THEN <<>> ELSE SubSeq(x, 1, Max(keep))
      Piece(k) ==
        LET a == IF k > 1 THEN DropLeft(ps[k]) ELSE ps[k]
        IN  IF k < n THEN DropRight(a) ELSE a
  IN  Join([k \in 1..n |-> Piece(k)], Str(" and "))

CitationMatches(t) == MatchesFrom(citationPattern, t, 1)

\* What the claim asks of one match; a match whose author segment, trimmed,
\* ends with a comma stays as it is, any other is rewritten.
CitationAsClaimed(t, m, authorsText) ==
  IF EndsWith(Trim(Group(citationPattern, t, m, 1)), ",")
    THEN Matched(t, m)
    ELSE Str("(") \o authorsText \o Str(", ")
           \o Group(citationPattern, t, m, 3) \o Str(")")

\* C1 as stated: every match whose author segment does not end with a comma
\* becomes (authors with every & replaced by the word and, year), every other
\* match stays unchanged, and the text between the matches is kept.
C1_AsStated ==
  pc # "call" =>
    LET ms == CitationMatches(arg)
    IN  ret = Rebuild(arg, ms,
                [k \in 1..Len(ms) |->
                   CitationAsClaimed(arg, ms[k],
                     LiteralAnd(Group(citationPattern, arg, ms[k], 1)))])

\* C1, amended: every match whose author segment does not end with a comma
\* becomes (authors, year) where every & of the authors, together with the
\* white space around it, is replaced by " and "; every match whose author
\* segment, trimmed, ends with a comma stays unchanged; the text between the
\* matches is kept; "See (Smith & Jones 2020) for details." becomes
\* "See (Smith and Jones, 2020) for details.".
C1_Rewrite ==
  pc # "call" =>
    LET ms == CitationMatches(arg)
    IN  /\ ret = Rebuild(arg, ms,
                   [k \in 1..Len(ms) |->
                      CitationAsClaimed(arg, ms[k],
                        AndWord(Group(citationPattern, arg, ms[k], 1)))])
        /\ arg = Str("See (Smith & Jones 2020) for details.")
             => ret = Str("See (Smith and Jones, 2020) for details.")

\* A citation with an unspaced & and one that already has its comma, fixed
C1_Witness ==
  /\ pc = "fixed"
  /\ arg = Str("(S&S 2020) (S  &S, 2020)")
  /\ ret = Str("(S and S, 2020) (S  &S, 2020)")

\* C8: fixing the citations of a fixed text changes nothing more, and
\* "(Smith, 2024)" is returned as it is.
C8_Idempotent ==
  /\ pc = "twice" => ret2 = ret
  /\ pc # "call" /\ arg = Str("(Smith, 2024)") => ret = arg

\* A text the first pass changed and the second pass left alone
C8_Witness ==
  /\ pc = "twice"
  /\ Len(CitationMatches(arg)) > 0
  /\ ret # arg
  /\ ret2 = ret

----------------------------------------------------------------------------
(* Reference entries and documents given to the reference-list fixer *)

\* Most ampersands in the authors of a generated entry
MaxAmpersands == 1

\* Most entry lines under a generated heading
MaxEntries == 2

AmpersandForms == {Str(" & "), Str("&"), Str("  &")}

RECURSIVE AuthorsWith(_)
\* Author lists with exactly n ampersands
AuthorsWith(n) ==
  IF n = 0 THEN {Str("Smith, J"), Str("A")}
  ELSE {a \o f \o Str("B") : a \in AuthorsWith(n - 1), f \in AmpersandForms}

AuthorLists == UNION {AuthorsWith(n) : n \in 0..MaxAmpersands}

Gaps == {Str(" "), <<>>}

Years == {Str("2020"), Str("1999b")}

\* Authors. (Year). Title. Journal, Volume(Issue), Pages.
JournalParts ==
  [kind : {"journal"}, authors : AuthorLists, gap : Gaps, year : Years,
   title : {Str("A Title")}, journal : {Str("Journal"), Str("J. Phys")},
   volume : {Str("5"), Str("12")}, issue : {<<>>, Str("2")},
   pages : {Str("10-20"), Str("1") \o <<EnDash>> \o Str("9")},
   dot : {Str("."), <<>>}]

JournalText(ps) ==
  ps.authors \o Str(".") \o ps.gap \o Str("(") \o ps.year \o Str(").")
    \o ps.gap \o ps.title \o Str(".") \o ps.gap \o ps.journal \o Str(",")
    \o ps.gap \o ps.volume
    \o (IF Len(ps.issue) > 0 THEN Str("(") \o ps.issue \o Str(")") ELSE <<>>)
    \o Str(",") \o ps.gap \o ps.pages \o ps.dot

\* Authors. (Year). Title. [In|Proceedings of] Conference, Location. and
\* what may follow it on the same line
ConferenceParts ==
  [kind : {"conference"}, authors : AuthorLists, gap : Gaps, year : Years,
   title : {Str("A Title")},
   prefix : {Str("In "), Str("Proceedings of "), <<>>},
   conference : {Str("Conf")}, location : {<<>>, Str("Paris")},
   extra : {<<>>, Str(" Extra notes"), Str(" Extra notes.")}]

ConferenceText(ps) ==
  ps.authors \o Str(".") \o ps.gap \o Str("(") \o ps.year \o Str(").")
    \o ps.gap \o ps.title \o Str(".") \o ps.gap \o ps.prefix \o ps.conference
    \o (IF Len(ps.location) > 0 THEN Str(", ") \o ps.location ELSE <<>>)
    \o Str(".") \o ps.extra

\* Authors. (Year). Title. Publisher.
BookParts ==
  [kind : {"book"}, authors : AuthorLists, gap : Gaps, year : Years,
   title : {Str("A Title")},
   publisher : {Str("Publisher"), Str("Proceedings Press"), Str("City: Pub")},
   dot : {Str("."), <<>>}]

BookText(ps) ==
  ps.authors \o Str(".") \o ps.gap \o Str("(") \o ps.year \o Str(").")
    \o ps.gap \o ps.title \o Str(".") \o ps.gap \o ps.publisher \o ps.dot

OtherEntries ==
  {Str("Smith, J., & Doe, K. (2020). T.. J &  x"), Str("no shape &here..  x"),
   Str("A. (20). T. P."), Str("A. (2020). A Title. J, 5(2), e12.")}

IntroText == Str("Intro.\n\n")

EntryLines ==
  {Str("S. (2020). T. J, 5(2), 1-2."), Str(" a &b.  (1999). t. p  "), Str("see x")}

LineBreaks == {Str("\n"), Str("\n\n")}

RECURSIVE LinesOf(_)
\* n entry lines, each but the first after a line break or a blank line
LinesOf(n) ==
  IF n = 0 THEN {<<>>}
  ELSE IF n = 1 THEN EntryLines
  ELSE {b \o sep \o l : b \in LinesOf(n - 1), sep \in LineBreaks, l \in EntryLines}

\* Text, a heading, the entry lines under it and what follows them
DocParts ==
  [kind : {"doc"},
   before : {<<>>, IntroText},
   heading : {Str("References"), Str("REFERENCE"), Str("Bibliography"), Str("Sources")},
   gap : {Str("\n"), Str("  \n"), Str("\n\n")},
   lines : UNION {LinesOf(n) : n \in 0..MaxEntries},
   after : {<<>>, Str("\n\nConclusion"), Str("\n\n2. Notes"), Str("\n\n(end)")}]

DocText(ps) == ps.before \o ps.heading \o ps.gap \o ps.lines \o ps.after

DocExamples ==
  {Str("References\nSmith, J. (2020). A Title. Journal, 5(2), 10-20.\n\nConclusion"),
   Str("References  \nSmith, J. (2020). A Title. Publisher.\n\nAppendix"),
   Str("References\nA. (2020). T. J, 5(2), 1-2.\n\nde B. (2020). T. J, 5(2), 1-2."),
   Str("No list in this text.")}

----------------------------------------------------------------------------
(* formatSingleReference and fixReferenceList on their own *)

InitRef ==
  /\ \/ /\ pc = "entry"
        /\ \/ parts \in JournalParts /\ arg = JournalText(parts)
           \/ parts \in ConferenceParts /\ arg = ConferenceText(parts)
           \/ parts \in BookParts /\ arg = BookText(parts)
           \/ parts \in [kind : {"text"}, text : OtherEntries] /\ arg = parts.text
     \/ /\ pc = "doc"
        /\ \/ parts \in DocParts /\ arg = DocText(parts)
           \/ parts \in [kind : {"text"}, text : DocExamples] /\ arg = parts.text
  /\ ret = <<>>
  /\ ret2 = <<>>
  /\ rule = "none"
  /\ Idle

\* formatSingleReference(arg)
FormatEntry ==
  /\ pc = "entry"
  /\ \E r \in {FormatReference(arg)} : ret' = r.out /\ rule' = r.rule
  /\ pc' = "formatted"
  /\ UNCHANGED <<parts, arg, ret2, urls, done, citationCounter, labels, req>>

\* fixReferenceList(arg)
FixReferences ==
  /\ pc = "doc"
  /\ ret' = fixReferenceList(arg)
  /\ pc' = "listed"
  /\ UNCHANGED <<parts, arg, ret2, rule, urls, done, citationCounter, labels, req>>

NextRef == FormatEntry \/ FixReferences

SpecRef == InitRef /\ [][NextRef]_vars

----------------------------------------------------------------------------
(* Claims about formatSingleReference and fixReferenceList *)

\* The journal output the claim describes, for the authors as given
JournalAsClaimed(ps, authorsText) ==
  authorsText \o Str(" (") \o ps.year \o Str(") '") \o ps.title \o Str("', *")
    \o ps.journal \o Str("*, ") \o ps.volume
    \o (IF Len(ps.issue) > 0 THEN Str("(") \o ps.issue \o Str(")") ELSE <<>>)
    \o Str(", pp. ") \o ps.pages \o Str(".")

JournalExample ==
  Str("References\nSmith, J. (2020). A Title. Journal, 5(2), 10-20.\n\nConclusion")

JournalExampleFixed ==
  Str("References\nSmith, J (2020) 'A Title', *Journal*, 5(2), pp. 10-20.\n\nConclusion")

C5_AsStated ==
  pc = "formatted" /\ parts.kind = "book" /\ parts.dot = Str(".")
    => ret = AndWord(parts.authors) \o Str(" (") \o parts.year \o Str(") *")
               \o parts.title \o Str("*. ") \o parts.publisher \o Str(".")

\* C6: every entry is formatted by exactly one of the four rules, the first
\* in the order journal, conference, book whose pattern matches, and by the
\* fallback only when none of the three matches.
C6_Precedence ==
  pc = "formatted" =>
    LET j == JournalMatch(arg)
        c == ConferenceMatch(arg)
        b == BookMatch(arg)
    IN  /\ rule \in {"journal", "conference", "book", "fallback"}
        /\ j.ok => rule = "journal" /\ ret = FormatJournal(arg, j)
        /\ ~j.ok /\ c.ok => rule = "conference" /\ ret = FormatConference(arg, c)
        /\ ~j.ok /\ ~c.ok /\ b.ok => rule = "book" /\ ret = FormatBook(arg, b)
        /\ rule = "fallback" <=> ~j.ok /\ ~c.ok /\ ~b.ok
        /\ rule = "fallback" => ret = BasicFixes(arg)

\* An entry with Proceedings in its publisher that the conference and the
\* book pattern both match, formatted by the conference rule
C6_Witness ==
  /\ pc = "formatted"
  /\ parts.kind = "book"
  /\ parts.publisher = Str("Proceedings Press")
  /\ ConferenceMatch(arg).ok
  /\ BookMatch(arg).ok
  /\ ~JournalMatch(arg).ok
  /\ rule = "conference"

\* C7 as stated: the text before the heading and the heading line up to and
\* with its line break are the same in the output, so is all text after the
\* captured block; without a heading the output is the input.
C7_AsStated ==
  pc = "listed" =>
    LET m == Search(referencesPattern, arg, 1)
    IN  IF ~m.ok THEN ret = arg
        ELSE LET lineEnd == Min({j \in ItemStart(m.path, m.start, 2)..Len(arg) :
                                   arg[j] = "\n"})
                 rest == Len(arg) - m.end + 1
             IN  /\ Len(ret) >= lineEnd + rest
                 /\ SubSeq(ret, 1, lineEnd) = SubSeq(arg, 1, lineEnd)
                 /\ SubSeq(ret, Len(ret) - rest + 1, Len(ret))
                      = SubSeq(arg, m.end, Len(arg))

\* C10 as stated: a pattern formats an entry only when it matches the entry
\* from its first to its last character.
C10_AsStated ==
  pc = "formatted" =>
    LET m == CASE rule = "journal" -> JournalMatch(arg)
               [] rule = "conference" -> ConferenceMatch(arg)
               [] rule = "book" -> BookMatch(arg)
               [] OTHER -> NoMatch
    IN  rule # "fallback" => m.start = 1 /\ m.end = Len(arg) + 1

\* A list whose second entry comes after a blank line and starts in lowercase
LowercaseExample ==
  Str("References\nA. (2020). T. J, 5(2), 1-2.\n\nde B. (2020). T. J, 5(2), 1-2.")

LowercaseExampleFixed ==
  Str("References\nA (2020) 'T', *J*, 5(2), pp. 1-2.\nde B (2020) 'T', *J*, 5(2), pp. 1-2.")

\* The places where the claim lets the block end: before a blank line and a
\* capital letter, before a blank line and a number with a period, before a
\* line starting Appendix, and at the end of the text
ClaimedBoundary(t, e) ==
  \/ e = Len(t) + 1
  \/ /\ StartsWithAt(t, e, Str("\n\n"))
     /\ e + 2 <= Len(t)
     /\ t[e + 2] \in UpperAZ
  \/ /\ StartsWithAt(t, e, Str("\n\n"))
     /\ \E n \in 1..Len(t) :
          /\ e + 2 + n <= Len(t)
          /\ \A j \in 1..n : t[e + 1 + j] \in Digit
          /\ t[e + 2 + n] = "."
  \/ StartsWithAt(t, e, Str("\nAppendix"))

\* C11 as stated: the captured block runs from the line after the heading to
\* the first of a blank line and a capital letter, a blank line and a
\* numbered line, a line starting Appendix, or the end of the text, and ends
\* nowhere else; a blank line and a line starting in lowercase does not end
\* it, so the entries after such a line are formatted too.
C11_AsStated ==
  pc = "listed" =>
    LET m == Search(referencesPattern, arg, 1)
    IN  /\ m.ok =>
             m.end = Min({e \in ItemStart(m.path, m.start, 4)..(Len(arg) + 1) :
                            ClaimedBoundary(arg, e)})
        /\ arg = LowercaseExample => ret = LowercaseExampleFixed

----------------------------------------------------------------------------
(* Texts with URLs *)

\* Most URLs in a generated run of URLs
MaxUrls == 3

Hosts ==
  {Str("www.example.com"), Str("example.com"), Str("awww.example.com"),
   Str("WWW.Example.com"), Str("news.www.a.org"), Str("www.www.a.org"),
   Str("u@www.a.org"), Str("a<b")}

\* A URL token written as scheme host tail
UrlParts ==
  [kind : {"url"}, scheme : {Str("http://"), Str("https://")}, host : Hosts,
   tail : {<<>>, Str("/page"), Str(":80/x"), Str(":x"), Str(".")}]

UrlToken(ps) == ps.scheme \o ps.host \o ps.tail

\* Two tokens that parse and two that do not
RunTokens ==
  {Str("https://www.a.org/x"), Str("http://b.www.c"), Str("http://a<b"),
   Str("http://:80")}

RECURSIVE UrlRuns(_)
\* Texts with n URL tokens
UrlRuns(n) ==
  IF n = 0 THEN {Str("no link")}
  ELSE IF n = 1 THEN RunTokens
  ELSE {r \o Str(" ") \o u : r \in UrlRuns(n - 1), u \in RunTokens}

UrlExamples ==
  {Str("Visit https://www.example.com/page for info."),
   Str("Visit https://awww.example.com/page for info.")}

----------------------------------------------------------------------------
(* The URL stage on its own, the callback called once for each match *)

InitUrl ==
  /\ pc = "text"
  /\ \/ parts \in UrlParts /\ arg = Str("See ") \o UrlToken(parts) \o Str(" now")
     \/ /\ parts \in [kind : {"text"},
                      text : UrlExamples \cup UNION {UrlRuns(n) : n \in 0..MaxUrls}]
        /\ arg = parts.text
  /\ ret = <<>>
  /\ ret2 = <<>>
  /\ rule = "none"
  /\ Idle

\* server.js:109-111
MatchUrls ==
  /\ pc = "text"
  /\ urls' = UrlsOf(arg)
  /\ citationCounter' = InitialCounter
  /\ done' = 0
  /\ labels' = <<>>
  /\ pc' = "replacing"
  /\ UNCHANGED <<parts, arg, ret, ret2, rule, req>>

\* The callback of server.js:115-124 on the next match
ReplaceUrl ==
  /\ pc = "replacing"
  /\ done < Len(urls)
  /\ \E c \in {UrlCallback(urls[done + 1], citationCounter)} :
       /\ labels' = Append(labels, c.out)
       /\ citationCounter' = c.counter
  /\ done' = done + 1
  /\ UNCHANGED <<pc, parts, arg, ret, ret2, rule, urls, req>>

\* server.js:127
ReturnProcessed ==
  /\ pc = "replacing"
  /\ done = Len(urls)
  /\ ret' = Rebuild(arg, UrlMatches(arg), labels)
  /\ pc' = "replaced"
  /\ UNCHANGED <<parts, arg, ret2, rule, urls, done, citationCounter, labels, req>>

NextUrl == MatchUrls \/ ReplaceUrl \/ ReturnProcessed

SpecUrl == InitUrl /\ [][NextUrl]_vars

----------------------------------------------------------------------------
(* Claims about the URL stage *)

\* The URLs among the first k matched that do not parse
Malformed(us, k) == {j \in 1..k : ~UrlHost(us[j]).ok}

SourceLabel(n) == Str("(Source ") \o ToDecimal(n) \o Str(", 2024)")

\* A hostname without www. when www. is what it starts with
WithoutLeadingWww(h) ==
  IF StartsWithAt(h, 1, Str("www.")) THEN SubSeq(h, 5, Len(h)) ELSE h

\* C3 as stated: every matched token that parses as a URL is replaced by
\* (h, 2024), h the hostname with www. removed only where it is the leading
\* prefix; "Visit https://www.example.com/page for info." becomes
\* "Visit (example.com, 2024) for info.".
C3_AsStated ==
  /\ \A k \in 1..Len(labels) :
       UrlHost(urls[k]).ok
         => labels[k] = Str("(") \o WithoutLeadingWww(UrlHost(urls[k]).hostname)
                          \o Str(", 2024)")
  /\ pc = "replaced" /\ arg = Str("Visit https://www.example.com/page for info.")
       => ret = Str("Visit (example.com, 2024) for info.")

\* C4: the counter starts at 1 and has been incremented once for each
\* malformed URL handled so far and for no other; the k-th malformed URL is
\* replaced by (Source k, 2024), a URL that parses by its hostname label; each
\* call of the callback adds one to the counter exactly when its URL does not
\* parse; the returned text has each URL replaced by its label.
C4_Counter ==
  /\ pc \in {"replacing", "replaced"} =>
       /\ Len(labels) = done
       /\ citationCounter = 1 + Cardinality(Malformed(urls, done))
       /\ \A k \in 1..done :
            IF UrlHost(urls[k]).ok
              THEN \A n \in 1..(MaxUrls + 1) : labels[k] # SourceLabel(n)
              ELSE labels[k] = SourceLabel(Cardinality(Malformed(urls, k)))
  /\ pc = "replaced" =>
       /\ done = Len(urls)
       /\ ret = Rebuild(arg, UrlMatches(arg), labels)

\* A run of a malformed URL, one that parses and a malformed one again
C4_Witness ==
  /\ pc = "replaced"
  /\ urls = <<Str("http://a<b"), Str("https://www.a.org/x"), Str("http://:80")>>
  /\ labels = <<SourceLabel(1), Str("(a.org, 2024)"), SourceLabel(2)>>
  /\ citationCounter = 3
  /\ ret = Str("(Source 1, 2024) (a.org, 2024) (Source 2, 2024)")

----------------------------------------------------------------------------
(* The /api/format handler, server.js:26-94.  A request runs in three      *)
(* pieces with an await between them (mammoth.extractRawText and           *)
(* Packer.toBuffer); the pieces of different requests interleave, and each *)
(* piece runs to its end before another starts.                            *)

\* Requests in flight at the same time
MaxRequests == 2

Requests == 1..MaxRequests

\* The texts of the uploaded documents
Uploads ==
  {Str("See http://a<b and http://:80"),
   Str("(S & T 2020) http://a<b https://www.a.org/x"),
   Str("Visit https://www.example.com/page for info."),
   Str("References\nA. (2020). T. P\n\nSee http://:80"),
   Str(" \n")}

NoRequest == [at |-> "idle", text |-> <<>>, out |-> <<>>, outs |-> <<>>]

Init ==
  /\ pc = "serving"
  /\ parts = [kind |-> "server"]
  /\ arg = <<>>
  /\ ret = <<>>
  /\ ret2 = <<>>
  /\ rule = "none"
  /\ urls = <<>>
  /\ done = 0
  /\ labels = <<>>
  /\ citationCounter = 1
  /\ req = [r \in Requests |-> NoRequest]

\* server.js:26-45: a request without a file is answered with 400 at once;
\* with a file the handler runs up to the await of extractRawText.
Receive(r) ==
  /\ req[r].at = "idle"
  /\ \/ req' = [req EXCEPT ![r].at = "400"]
     \/ \E text \in Uploads :
          req' = [req EXCEPT ![r].at = "extracting", ![r].text = text]
  /\ UNCHANGED <<pc, parts, arg, ret, ret2, rule, urls, done, citationCounter, labels>>

\* server.js:45-68: the text is extracted; without text the answer is 400,
\* else the text is processed and the handler runs up to the await of
\* Packer.toBuffer.  citationCounter holds the counter binding of the
\* invocation of processTextForCitations that returned last.
Extracted(r) ==
  /\ req[r].at = "extracting"
  /\ IF Len(Trim(req[r].text)) = 0
       THEN /\ req' = [req EXCEPT ![r].at = "400"]
            /\ UNCHANGED citationCounter
       ELSE \E processed \in {ProcessText(req[r].text)} :
              /\ req' = [req EXCEPT ![r].at = "packing",
                                    ![r].out = processed.out,
                                    ![r].outs = processed.outs]
              /\ citationCounter' = processed.counter
  /\ UNCHANGED <<pc, parts, arg, ret, ret2, rule, urls, done, labels>>

\* server.js:68-80: the buffer is sent
Packed(r) ==
  /\ req[r].at = "packing"
  /\ req' = [req EXCEPT ![r].at = "sent"]
  /\ UNCHANGED <<pc, parts, arg, ret, ret2, rule, urls, done, citationCounter, labels>>

\* server.js:82-93: an await rejects and the answer is 500
Failed(r) ==
  /\ req[r].at \in {"extracting", "packing"}
  /\ req' = [req EXCEPT ![r].at = "500"]
  /\ UNCHANGED <<pc, parts, arg, ret, ret2, rule, urls, done, citationCounter, labels>>

Next == \E r \in Requests : Receive(r) \/ Extracted(r) \/ Packed(r) \/ Failed(r)

Spec == Init /\ [][Next]_vars

----------------------------------------------------------------------------
(* Claims about the handler *)

\* The replacements an invocation on its own makes for the URLs of a text:
\* the malformed ones numbered from 1 in the order they appear
OwnLabels(text) ==
  LET us == UrlsOf(fixReferenceList(fixInTextCitations(text)))
  IN  [k \in 1..Len(us) |->
         IF UrlHost(us[k]).ok
           THEN Str("(") \o ReplaceFirst(UrlHost(us[k]).hostname, Str("www."), <<>>)
                  \o Str(", 2024)")
           ELSE SourceLabel(Cardinality(Malformed(us, k)))]

\* C9: the labels an invocation of processTextForCitations produces are those
\* of its own text numbered from Source 1, whatever other requests were
\* processed before it or are in flight with it.
C9_OwnCounter ==
  \A r \in Requests :
    Len(req[r].out) > 0 => req[r].outs = OwnLabels(req[r].text)

\* Two requests in flight together, each processed and each with its own
\* Source 1, the second with its own Source 2 as well
C9_Witness ==
  /\ req[1].at = "packing"
  /\ req[2].at = "packing"
  /\ req[1].outs = <<SourceLabel(1), Str("(a.org, 2024)")>>
  /\ req[2].outs = <<SourceLabel(1), SourceLabel(2)>>
  /\ citationCounter = 2

====
